---- MODULE Spec2Model ----
(***************************************************************************)
(* Pix-Control: webhook ingestion (app.py), payment store, daily summary   *)
(* and daily closing (database.py), and the closing loop (app.py).         *)
(*                                                                         *)
(* Amounts are held in cents.  A formatted date ("%Y-%m-%d") is held as    *)
(* the day number, a formatted time ("%H:%M:%S") as <<h, m, s>>.           *)
(***************************************************************************)
EXTENDS Integers, Sequences, FiniteSets, TLC

\* ---------------------------------------------------------------- bounds
MaxTiques == 1
MaxChamadas == 3
MaxAtraso == 1
JanelaInicio == 150

\* ------------------------------------------------------ program constants
HORA_FECHAMENTO == 23
MINUTO_FECHAMENTO == 59
ESPERA_POS_DISPARO == 70
INTERVALO_VERIFICACAO == 30
EMPRESA_PADRAO == 1
PIX_WEBHOOK_SECRET == "segredo"

SegundosPorDia == 24 * 60 * 60

\* two request threads, so that any two calls can overlap; two tenants
Workers == {1, 2}
Empresas == {1, 2}
\* the dates the clock can show
UltimoDia == (SegundosPorDia - 1 + MaxTiques) \div SegundosPorDia
Datas == 0..UltimoDia
\* payments handed to salvar_pix: <<payment_id, valor, status>>
Pagamentos == {<<"abc123", 1050, "CONFIRMED">>, <<"xyz999", 500, "CONFIRMED">>}

VARIABLES
    pix,                \* table pix, in rowid order
    fechamento_diario,  \* table fechamento_diario: its set of rows
    relogio,            \* wall clock, seconds since 00:00:00 of day 0
    th,                 \* request/caller threads
    sched,              \* the fechamento_auto thread
    eventos,            \* pix_received events emitted so far
    chamadas,           \* number of operations started (bounded)
    g_fech,             \* history: per closing row, its snapshot and the row it replaced
    disparos            \* history: date -> number of times the loop triggered fechar_dia

vars == <<pix, fechamento_diario, relogio, th, sched, eventos, chamadas, g_fech, disparos>>

\* ------------------------------------------------------------ time formats
\* datetime.strftime("%Y-%m-%d")
FormatData(t) == t \div SegundosPorDia

\* datetime.hour / .minute / .second
Hora(t) == (t % SegundosPorDia) \div 3600
Minuto(t) == (t % 3600) \div 60
Segundo(t) == t % 60

\* datetime.strftime("%H:%M:%S")
FormatHora(t) == <<Hora(t), Minuto(t), Segundo(t)>>

\* datetime.strftime("%Y-%m-%d %H:%M:%S")
FormatDataHora(t) == <<FormatData(t), Hora(t), Minuto(t), Segundo(t)>>

\* f"{x:.2f}" of a number held in cents
Format2f(n) ==
    LET a == IF n < 0 THEN 0 - n ELSE n
    IN [negativo |-> n < 0, inteiro |-> a \div 100, centavos |-> a % 100]

\* ------------------------------------------------------------------ tables
\* what a query that finds no row yields
NULL == [existe |-> FALSE, total |-> 0, quantidade |-> 0, fechado_em |-> <<0, 0, 0, 0>>]

Chaves == Datas \X Empresas

\* INSERT OR IGNORE INTO pix (...): payment_id is UNIQUE over the whole table
ExistePaymentId(tabela, payment_id) ==
    \E i \in 1..Len(tabela) : tabela[i].payment_id = payment_id

\* the insert as INSERT OR REPLACE: the row in conflict is deleted first
InsertOrIgnorePix_replace(tabela, payment_id, valor, status, agora, empresa_id) ==
    LET resto == SelectSeq(tabela, LAMBDA r : r.payment_id # payment_id)
    IN Append(resto, [id |-> Len(tabela) + 1,
                      payment_id |-> payment_id,
                      valor |-> valor,
                      status |-> status,
                      data |-> FormatData(agora),
                      hora |-> FormatHora(agora),
                      empresa_id |-> empresa_id])

InsertOrIgnorePix(tabela, payment_id, valor, status, agora, empresa_id) ==
    IF ExistePaymentId(tabela, payment_id)
    THEN tabela
    ELSE Append(tabela, [id |-> Len(tabela) + 1,
                         payment_id |-> payment_id,
                         valor |-> valor,
                         status |-> status,
                         data |-> FormatData(agora),
                         hora |-> FormatHora(agora),
                         empresa_id |-> empresa_id])

\* the summary query without its empresa_id condition
RECURSIVE SelectSumCount_sem_empresa(_, _, _)
SelectSumCount_sem_empresa(tabela, data, empresa_id) ==
    IF tabela = <<>> THEN <<0, 0>>
    ELSE LET resto == SelectSumCount_sem_empresa(Tail(tabela), data, empresa_id)
             r == Head(tabela)
         IN IF r.data = data
            THEN <<r.valor + resto[1], resto[2] + 1>>
            ELSE resto

\* SELECT IFNULL(SUM(valor),0), COUNT(*) FROM pix WHERE data = ? AND empresa_id = ?
RECURSIVE SelectSumCount(_, _, _)
SelectSumCount(tabela, data, empresa_id) ==
    IF tabela = <<>> THEN <<0, 0>>
    ELSE LET resto == SelectSumCount(Tail(tabela), data, empresa_id)
             r == Head(tabela)
         IN IF r.data = data /\ r.empresa_id = empresa_id
            THEN <<r.valor + resto[1], resto[2] + 1>>
            ELSE resto

resumo_do_dia(data, empresa_id) == SelectSumCount(pix, data, empresa_id)

\* rows of fechamento_diario with a (data, empresa_id) key
LinhasFechamento(tabela, data, empresa_id) ==
    {r \in tabela : r.data = data /\ r.empresa_id = empresa_id}

LinhaFechamento(data, empresa_id, total, qtd, agora) ==
    [data |-> data, empresa_id |-> empresa_id, total |-> total, quantidade |-> qtd,
     fechado_em |-> FormatDataHora(agora)]

\* the closing query inserting an empty row when it finds none
SelectFechamento_cria(tabela, data, empresa_id) ==
    LET L == LinhasFechamento(tabela, data, empresa_id)
        r == IF L = {} THEN LinhaFechamento(data, empresa_id, 0, 0, 0)
             ELSE CHOOSE x \in L : TRUE
    IN [linha |-> [existe |-> TRUE, total |-> r.total, quantidade |-> r.quantidade,
                   fechado_em |-> r.fechado_em],
        tabela |-> tabela \cup {r}]

\* SELECT total, quantidade, fechado_em FROM fechamento_diario
\* WHERE data = ? AND empresa_id = ?, and fetchone(): the row read (or NULL)
\* and the table the statement leaves
SelectFechamento(tabela, data, empresa_id) ==
    LET L == LinhasFechamento(tabela, data, empresa_id)
    IN [linha |-> IF L = {} THEN NULL
                  ELSE LET r == CHOOSE x \in L : TRUE
                       IN [existe |-> TRUE, total |-> r.total,
                           quantidade |-> r.quantidade, fechado_em |-> r.fechado_em],
        tabela |-> tabela]

\* the closing write adding to the row in place instead of replacing it
InsertOrReplaceFechamento_soma(tabela, data, empresa_id, total, qtd, agora) ==
    LET velha == SelectFechamento(tabela, data, empresa_id).linha
    IN (tabela \ LinhasFechamento(tabela, data, empresa_id))
       \cup {LinhaFechamento(data, empresa_id, velha.total + total,
                             velha.quantidade + qtd, agora)}

\* the closing write as INSERT OR IGNORE: a row in place is kept
InsertOrReplaceFechamento_ignore(tabela, data, empresa_id, total, qtd, agora) ==
    IF LinhasFechamento(tabela, data, empresa_id) # {} THEN tabela
    ELSE tabela \cup {LinhaFechamento(data, empresa_id, total, qtd, agora)}

\* the closing write into a table with no primary key: a plain INSERT
InsertOrReplaceFechamento_sem_chave(tabela, data, empresa_id, total, qtd, agora) ==
    tabela \cup {LinhaFechamento(data, empresa_id, total, qtd, agora)}

\* the closing write with the key on data alone: it replaces every empresa's row
InsertOrReplaceFechamento_so_data(tabela, data, empresa_id, total, qtd, agora) ==
    {r \in tabela : r.data # data}
    \cup {LinhaFechamento(data, empresa_id, total, qtd, agora)}

\* INSERT OR REPLACE INTO fechamento_diario (...): PRIMARY KEY (data, empresa_id),
\* so the rows in conflict on the key are deleted and the new row inserted
InsertOrReplaceFechamento(tabela, data, empresa_id, total, qtd, agora) ==
    (tabela \ LinhasFechamento(tabela, data, empresa_id))
    \cup {LinhaFechamento(data, empresa_id, total, qtd, agora)}

\* buscar_fechamento(data, empresa_id): the row as a dict, or None (NULL)
buscar_fechamento(data, empresa_id) ==
    SelectFechamento(fechamento_diario, data, empresa_id).linha

\* ------------------------------------------------------------ python calls
Parametros ==
    [salvar_pix |-> <<"payment_id", "valor", "status", "empresa_id">>,
     resumo_do_dia |-> <<"data", "empresa_id">>,
     fechar_dia |-> <<"data", "empresa_id">>,
     buscar_fechamento |-> <<"data", "empresa_id">>]

\* value a missing parameter would take if the signatures had kept defaults
ValorPadrao(param, agora) ==
    IF param = "empresa_id" THEN EMPRESA_PADRAO ELSE FormatData(agora)

Chamada_com_padrao(fn, args, agora) ==
    LET ps == Parametros[fn]
    IN [erro |-> Len(args) > Len(ps),
        args |-> [i \in 1..Len(ps) |->
                    IF i <= Len(args) THEN args[i] ELSE ValorPadrao(ps[i], agora)]]

\* binding of positional arguments: every parameter is required, so a call
\* with fewer (or more) arguments raises TypeError before the body runs
Chamada(fn, args, agora) ==
    [erro |-> Len(args) # Len(Parametros[fn]), args |-> args]

\* ----------------------------------------------------------------- threads
SemAssinatura == [t |-> "ausente", chave |-> "", corpo |-> 0]

Livre ==
    [pc |-> "livre", op |-> "", payment_id |-> "", valor |-> 0, status |-> "",
     empresa_id |-> 0, data |-> 0, agora |-> 0, total |-> 0, qtd |-> 0,
     lido |-> 0, viu |-> 0, corpo |-> 0, assinatura |-> SemAssinatura,
     ret |-> "", inseriu |-> FALSE, emitiu |-> FALSE, novo |-> FALSE,
     falha |-> FALSE]

\* a thread can take a call when it is not inside one; the threads are
\* interchangeable, so unused threads are taken in order
Pronta(w) ==
    /\ th[w].pc \in {"livre", "fim"}
    /\ \A u \in Workers : u < w => th[u].pc # "livre"

GFechVazio ==
    [n |-> 0, lido |-> 0, fim |-> 0, seq |-> FALSE,
     ant |-> [existe |-> FALSE, total |-> 0, quantidade |-> 0, lido |-> 0, fim |-> 0]]

\* history kept when a closing row is written: the snapshot it holds (lido:
\* rows of pix visible to its summary read), the table length at the write
\* (fim), whether its call began after the replaced row was in place (seq),
\* and the replaced row (ant)
GFechNovo(k, lido, viu) ==
    LET velha == buscar_fechamento(k[1], k[2])
    IN [n |-> g_fech[k].n + 1, lido |-> lido, fim |-> Len(pix),
        seq |-> velha.existe /\ viu = g_fech[k].n,
        ant |-> [existe |-> velha.existe, total |-> velha.total,
                 quantidade |-> velha.quantidade,
                 lido |-> g_fech[k].lido, fim |-> g_fech[k].fim]]

\* ------------------------------------------------------------- salvar_pix
\* salvar_pix(payment_id, valor, status, empresa_id), up to agora = datetime.now()
salvar_pix_agora(w, payment_id, valor, status, empresa_id) ==
    /\ Pronta(w)
    /\ chamadas < MaxChamadas
    /\ chamadas' = chamadas + 1
    /\ th' = [th EXCEPT ![w] = [Livre EXCEPT !.pc = "sp_insert", !.op = "salvar_pix",
                                             !.payment_id = payment_id, !.valor = valor,
                                             !.status = status, !.empresa_id = empresa_id,
                                             !.agora = relogio]]
    /\ UNCHANGED <<pix, fechamento_diario, relogio, sched, eventos, g_fech, disparos>>

\* the INSERT OR IGNORE, commit, close and return
salvar_pix_insert(w) ==
    /\ th[w].pc = "sp_insert"
    /\ LET t == th[w]
           nova == InsertOrIgnorePix(pix, t.payment_id, t.valor, t.status, t.agora, t.empresa_id)
       IN /\ pix' = nova
          /\ th' = [th EXCEPT ![w] = [Livre EXCEPT !.pc = "fim", !.op = "salvar_pix",
                                                   !.payment_id = t.payment_id,
                                                   !.valor = t.valor,
                                                   !.status = t.status,
                                                   !.empresa_id = t.empresa_id,
                                                   !.ret = "None",
                                                   !.inseriu = Len(nova) > Len(pix)]]
    /\ UNCHANGED <<fechamento_diario, relogio, sched, eventos, chamadas, g_fech, disparos>>

\* ------------------------------------------------------------- fechar_dia
\* fechar_dia(data, empresa_id), up to total, qtd = resumo_do_dia(data, empresa_id)
fechar_dia_resumo(w, data, empresa_id) ==
    /\ Pronta(w)
    /\ chamadas < MaxChamadas
    /\ chamadas' = chamadas + 1
    /\ LET r == resumo_do_dia(data, empresa_id)
       IN th' = [th EXCEPT ![w] = [Livre EXCEPT !.pc = "fd_replace", !.op = "fechar_dia",
                                                !.data = data, !.empresa_id = empresa_id,
                                                !.total = r[1], !.qtd = r[2],
                                                !.lido = Len(pix),
                                                !.viu = g_fech[<<data, empresa_id>>].n]]
    /\ UNCHANGED <<pix, fechamento_diario, relogio, sched, eventos, g_fech, disparos>>

\* the INSERT OR REPLACE with datetime.now(), commit, close and return
fechar_dia_replace(w) ==
    /\ th[w].pc = "fd_replace"
    /\ LET t == th[w]
           k == <<t.data, t.empresa_id>>
       IN /\ fechamento_diario' =
                InsertOrReplaceFechamento(fechamento_diario, t.data, t.empresa_id,
                                          t.total, t.qtd, relogio)
          /\ g_fech' = [g_fech EXCEPT ![k] = GFechNovo(k, t.lido, t.viu)]
          /\ th' = [th EXCEPT ![w] = [Livre EXCEPT !.pc = "fim", !.op = "fechar_dia",
                                                   !.data = t.data,
                                                   !.empresa_id = t.empresa_id,
                                                   !.ret = "None"]]
    /\ UNCHANGED <<pix, relogio, sched, eventos, chamadas, disparos>>

\* ------------------------------------------------------------------ reads
\* resumo_do_dia(data, empresa_id) called on its own: the query and the return
resumo_do_dia_chamada(w, data, empresa_id) ==
    /\ Pronta(w)
    /\ chamadas < MaxChamadas
    /\ chamadas' = chamadas + 1
    /\ LET r == resumo_do_dia(data, empresa_id)
       IN th' = [th EXCEPT ![w] = [Livre EXCEPT !.pc = "fim", !.op = "resumo_do_dia",
                                                !.data = data, !.empresa_id = empresa_id,
                                                !.total = r[1], !.qtd = r[2],
                                                !.ret = "tuple"]]
    /\ UNCHANGED <<pix, fechamento_diario, relogio, sched, eventos, g_fech, disparos>>

\* buscar_fechamento(data, empresa_id) called on its own: the query, close and return
buscar_fechamento_chamada(w, data, empresa_id) ==
    /\ Pronta(w)
    /\ chamadas < MaxChamadas
    /\ chamadas' = chamadas + 1
    /\ LET sel == SelectFechamento(fechamento_diario, data, empresa_id)
       IN /\ fechamento_diario' = sel.tabela
          /\ th' = [th EXCEPT ![w] =
                      [Livre EXCEPT !.pc = "fim", !.op = "buscar_fechamento",
                                    !.data = data, !.empresa_id = empresa_id,
                                    !.total = sel.linha.total, !.qtd = sel.linha.quantidade,
                                    !.ret = IF sel.linha.existe THEN "dict" ELSE "None"]]
    /\ UNCHANGED <<pix, relogio, sched, eventos, g_fech, disparos>>

\* relatorio_pdf(data) up to the figures of the report: buscar_fechamento(data),
\* and resumo_do_dia(data) when there is no closing row (the caller is a
\* logged-in gerente; the drawing of the PDF touches no table)
relatorio_pdf(w, data) ==
    /\ Pronta(w)
    /\ chamadas < MaxChamadas
    /\ chamadas' = chamadas + 1
    /\ LET busca == Chamada("buscar_fechamento", << data >>, relogio)
           sel == SelectFechamento(fechamento_diario, busca.args[1], busca.args[2])
           resumo == Chamada("resumo_do_dia", << data >>, relogio)
           r == resumo_do_dia(resumo.args[1], resumo.args[2])
           t == [Livre EXCEPT !.pc = "fim", !.op = "relatorio_pdf", !.data = data]
       IN /\ fechamento_diario' = IF busca.erro THEN fechamento_diario ELSE sel.tabela
          /\ th' = [th EXCEPT ![w] =
                      IF busca.erro THEN [t EXCEPT !.ret = "500 TypeError"]
                      ELSE IF sel.linha.existe
                      THEN [t EXCEPT !.ret = "200", !.empresa_id = busca.args[2],
                                     !.total = sel.linha.total,
                                     !.qtd = sel.linha.quantidade]
                      ELSE IF resumo.erro THEN [t EXCEPT !.ret = "500 TypeError"]
                      ELSE [t EXCEPT !.ret = "200", !.empresa_id = resumo.args[2],
                                     !.total = r[1], !.qtd = r[2]]]
    /\ UNCHANGED <<pix, relogio, sched, eventos, g_fech, disparos>>

\* ------------------------------------------------------------ webhook_pix
\* JSON values of a request body: a string, a number (cents) or no such key
JAusente == [t |-> "ausente", s |-> "", n |-> 0]
JStr(s) == [t |-> "str", s |-> s, n |-> 0]
JNum(n) == [t |-> "num", s |-> "", n |-> n]

\* request bodies delivered to /webhook/pix (JSON objects)
Corpos ==
    << [paymentId |-> JStr("abc123"), amount |-> JNum(1050), status |-> JStr("CONFIRMED")],
       [paymentId |-> JAusente, amount |-> JStr("abc"), status |-> JAusente],
       [paymentId |-> JStr(""), amount |-> JNum(0 - 500), status |-> JAusente] >>

\* dict.get(key, default)
DictGet(v, padrao) == IF v.t = "ausente" THEN padrao ELSE v

\* float(x): a number converts, a string converts only if it spells a number
Float(v) ==
    IF v.t = "num" THEN [erro |-> FALSE, n |-> v.n]
    ELSE IF v.s = "10.50" THEN [erro |-> FALSE, n |-> 1050]
    ELSE [erro |-> TRUE, n |-> 0]

\* hmac.new(key, payload, sha256).hexdigest(): determined by key and payload
HmacHexdigest(chave, corpo) == [t |-> "digest", chave |-> chave, corpo |-> corpo]

\* X-Signature values tried against body c: none, the right digest, the
\* digest of another body, and a header with a non-ASCII character
Assinaturas(c) ==
    { SemAssinatura,
      HmacHexdigest(PIX_WEBHOOK_SECRET, c),
      HmacHexdigest(PIX_WEBHOOK_SECRET, (c % Len(Corpos)) + 1),
      [t |-> "naoascii", chave |-> "", corpo |-> 0] }

\* validar_assinatura_pix: hmac.compare_digest(calc, assinatura or "") raises
\* TypeError on a str with non-ASCII characters
validar_assinatura_pix(payload, assinatura) ==
    LET calc == HmacHexdigest(PIX_WEBHOOK_SECRET, payload)
        recebida == IF assinatura.t = "ausente"
                    THEN [t |-> "vazia", chave |-> "", corpo |-> 0]
                    ELSE assinatura
    IN IF recebida.t = "naoascii" THEN "TypeError"
       ELSE IF calc = recebida THEN "True" ELSE "False"

Fim(t, ret) ==
    [Livre EXCEPT !.pc = "fim", !.op = t.op, !.payment_id = t.payment_id,
                  !.empresa_id = t.empresa_id, !.data = t.data, !.corpo = t.corpo,
                  !.assinatura = t.assinatura, !.ret = ret, !.inseriu = t.inseriu,
                  !.emitiu = t.emitiu, !.novo = t.novo, !.falha = t.falha,
                  !.total = t.total, !.qtd = t.qtd]

\* webhook_pix: request.get_data(), the X-Signature header and the signature check.
\* falha: whether socketio.emit, if this request comes to call it, will raise
\* (it is never called for a request that fails the signature check)
webhook_pix_recebe(w, c, assinatura, falha) ==
    /\ Pronta(w)
    /\ chamadas < MaxChamadas
    /\ chamadas' = chamadas + 1
    /\ LET t == [Livre EXCEPT !.op = "webhook_pix", !.corpo = c, !.assinatura = assinatura,
                              !.novo = ~ExistePaymentId(pix,
                                           DictGet(Corpos[c].paymentId, JStr("N/A")).s)]
           v == validar_assinatura_pix(c, assinatura)
       IN th' = [th EXCEPT ![w] =
                    IF v = "TypeError" THEN Fim(t, "500 TypeError")
                    ELSE IF v = "False" THEN Fim(t, "401")
                    ELSE [t EXCEPT !.pc = "wh_json", !.falha = falha]]
    /\ UNCHANGED <<pix, fechamento_diario, relogio, sched, eventos, g_fech, disparos>>

\* webhook_pix after the signature check, one step per access to shared state:
\*   wh_json    data = request.json or {}; the arguments; the call of salvar_pix
\*   wh_insert  the INSERT OR IGNORE inside salvar_pix
\*   wh_resumo  total, qtd = resumo_do_dia()
\*   wh_emit    socketio.emit("pix_received", ...) and return ok; nothing
\*              catches an exception of emit
webhook_pix_passo(w) ==
    /\ th[w].pc \in {"wh_json", "wh_insert", "wh_resumo", "wh_emit"}
    /\ LET t == th[w]
           data == Corpos[t.corpo]
           valor == Float(DictGet(data.amount, JNum(0)))
           salvar == Chamada("salvar_pix",
                             << DictGet(data.paymentId, JStr("N/A")).s, valor.n,
                                DictGet(data.status, JStr("CONFIRMADO")).s >>, relogio)
           resumo == Chamada("resumo_do_dia", << >>, relogio)
           nova == InsertOrIgnorePix(pix, t.payment_id, t.valor, t.status, t.agora, t.empresa_id)
           formatavel == DictGet(data.amount, JNum(0)).t = "num"
           novo_t ==
             CASE t.pc = "wh_json" ->
                    IF valor.erro THEN Fim(t, "500 ValueError")
                    ELSE IF salvar.erro THEN Fim(t, "500 TypeError")
                    ELSE [t EXCEPT !.pc = "wh_insert",
                                   !.payment_id = salvar.args[1], !.valor = salvar.args[2],
                                   !.status = salvar.args[3], !.empresa_id = salvar.args[4],
                                   !.agora = relogio]
               [] t.pc = "wh_insert" ->
                    [t EXCEPT !.pc = "wh_resumo", !.inseriu = Len(nova) > Len(pix)]
               [] t.pc = "wh_resumo" ->
                    IF resumo.erro THEN Fim(t, "500 TypeError")
                    ELSE [t EXCEPT !.pc = "wh_emit", !.data = resumo.args[1],
                                   !.total = resumo_do_dia(resumo.args[1], resumo.args[2])[1],
                                   !.qtd = resumo_do_dia(resumo.args[1], resumo.args[2])[2]]
               [] OTHER ->
                    IF ~formatavel THEN Fim(t, "500 ValueError")
                    ELSE IF t.falha THEN Fim(t, "500 Exception")
                    ELSE Fim([t EXCEPT !.emitiu = TRUE], "200")
       IN /\ th' = [th EXCEPT ![w] = novo_t]
          /\ pix' = IF t.pc = "wh_insert" THEN nova ELSE pix
          /\ eventos' = IF t.pc = "wh_emit" /\ formatavel /\ ~t.falha
                        THEN Append(eventos,
                                    [valor |-> Format2f(DictGet(data.amount, JNum(0)).n),
                                     status |-> "CONFIRMADO",
                                     hora |-> FormatHora(relogio),
                                     total_dia |-> Format2f(t.total),
                                     quantidade_dia |-> t.qtd])
                        ELSE eventos
    /\ UNCHANGED <<fechamento_diario, relogio, sched, chamadas, g_fech, disparos>>

\* -------------------------------------------------------- fechamento_auto
\* the exception swallowed around the call and the hold, the loop going on
fechamento_auto_excecao_engolida == "fa_intervalo"

\* an exception that leaves the thread's target ends the thread
fechamento_auto_excecao == "morto"

\* fechamento_auto, one step per access to shared state or sleep:
\*   verifica      agora = datetime.now(); the test; the call of fechar_dia up
\*                 to its summary read, or time.sleep(30)
\*   fa_replace    the INSERT OR REPLACE inside fechar_dia
\*   fa_espera     time.sleep(70)
\*   fa_intervalo  time.sleep(30)
\* atraso is how much later than asked a sleep returns
fechamento_auto(atraso) ==
    /\ sched.pc \in {"verifica", "fa_replace", "fa_espera", "fa_intervalo"}
    /\ relogio + ESPERA_POS_DISPARO + atraso < SegundosPorDia * (UltimoDia + 1)
    /\ LET agora == relogio
           na_janela == Hora(agora) = HORA_FECHAMENTO /\ Minuto(agora) = MINUTO_FECHAMENTO
           fechar == Chamada("fechar_dia", << FormatData(agora) >>, agora)
           k == <<sched.data, sched.empresa_id>>
       IN /\ sched' =
               CASE sched.pc = "verifica" /\ ~na_janela -> sched
                 [] sched.pc = "verifica" /\ na_janela ->
                      IF fechar.erro THEN [sched EXCEPT !.pc = fechamento_auto_excecao]
                      ELSE [pc |-> "fa_replace", data |-> fechar.args[1],
                            empresa_id |-> fechar.args[2],
                            total |-> resumo_do_dia(fechar.args[1], fechar.args[2])[1],
                            qtd |-> resumo_do_dia(fechar.args[1], fechar.args[2])[2],
                            lido |-> Len(pix),
                            viu |-> g_fech[<<fechar.args[1], fechar.args[2]>>].n]
                 [] sched.pc = "fa_replace" -> [sched EXCEPT !.pc = "fa_espera"]
                 [] sched.pc = "fa_espera" -> [sched EXCEPT !.pc = "fa_intervalo"]
                 [] OTHER -> [sched EXCEPT !.pc = "verifica"]
          /\ relogio' =
               CASE sched.pc = "verifica" /\ ~na_janela ->
                      relogio + INTERVALO_VERIFICACAO + atraso
                 [] sched.pc = "fa_espera" -> relogio + ESPERA_POS_DISPARO + atraso
                 [] sched.pc = "fa_intervalo" -> relogio + INTERVALO_VERIFICACAO + atraso
                 [] OTHER -> relogio
          /\ disparos' = IF sched.pc = "verifica" /\ na_janela
                         THEN [disparos EXCEPT ![FormatData(agora)] = @ + 1]
                         ELSE disparos
          /\ fechamento_diario' =
               IF sched.pc = "fa_replace"
               THEN InsertOrReplaceFechamento(fechamento_diario, sched.data, sched.empresa_id,
                                              sched.total, sched.qtd, relogio)
               ELSE fechamento_diario
          /\ g_fech' = IF sched.pc = "fa_replace"
                       THEN [g_fech EXCEPT ![k] = GFechNovo(k, sched.lido, sched.viu)]
                       ELSE g_fech
    /\ UNCHANGED <<pix, th, eventos, chamadas>>

\* one second passes
Tique ==
    /\ relogio < SegundosPorDia - 1 + MaxTiques
    /\ relogio' = relogio + 1
    /\ UNCHANGED <<pix, fechamento_diario, th, sched, eventos, chamadas, g_fech, disparos>>

\* an hour passes while no thread of the program is running or sleeping
HoraPassa ==
    /\ sched.pc \in {"parado", "morto"}
    /\ \A w \in Workers : th[w].pc \in {"livre", "fim"}
    /\ relogio < SegundosPorDia * (UltimoDia + 1)
    /\ relogio' = relogio + 3600
    /\ UNCHANGED <<pix, fechamento_diario, th, sched, eventos, chamadas, g_fech, disparos>>

\* ------------------------------------------------------------------- specs
SchedParado ==
    [pc |-> "parado", data |-> 0, empresa_id |-> 0, total |-> 0, qtd |-> 0,
     lido |-> 0, viu |-> 0]

\* callers of the store (salvar_pix, fechar_dia); the clock stands just before midnight
Init ==
    /\ pix = <<>>
    /\ fechamento_diario = {}
    /\ relogio = SegundosPorDia - 1
    /\ th = [w \in Workers |-> Livre]
    /\ sched = SchedParado
    /\ eventos = <<>>
    /\ chamadas = 0
    /\ g_fech = [k \in Chaves |-> GFechVazio]
    /\ disparos = [d \in Datas |-> 0]

Next ==
    \/ \E w \in Workers, p \in Pagamentos, e \in Empresas :
          salvar_pix_agora(w, p[1], p[2], p[3], e)
    \/ \E w \in Workers : salvar_pix_insert(w)
    \/ \E w \in Workers, d \in Datas, e \in Empresas : fechar_dia_resumo(w, d, e)
    \/ \E w \in Workers : fechar_dia_replace(w)
    \/ Tique

Spec == Init /\ [][Next]_vars

\* webhook deliveries, next to other callers of salvar_pix
NextWebhook ==
    \/ \E w \in Workers, c \in 1..Len(Corpos), f \in BOOLEAN : \E a \in Assinaturas(c) :
          webhook_pix_recebe(w, c, a, f)
    \/ \E w \in Workers : webhook_pix_passo(w)
    \/ \E w \in Workers, p \in Pagamentos, e \in Empresas :
          salvar_pix_agora(w, p[1], p[2], p[3], e)
    \/ \E w \in Workers : salvar_pix_insert(w)
    \/ Tique

SpecWebhook == Init /\ [][NextWebhook]_vars

\* the fechamento_auto thread alone, started in the last minutes of day 0
InitSched ==
    /\ pix = <<>>
    /\ fechamento_diario = {}
    /\ relogio \in {SegundosPorDia - s : s \in 1..JanelaInicio}
    /\ th = [w \in Workers |-> Livre]
    /\ sched = [SchedParado EXCEPT !.pc = "verifica"]
    /\ eventos = <<>>
    /\ chamadas = 0
    /\ g_fech = [k \in Chaves |-> GFechVazio]
    /\ disparos = [d \in Datas |-> 0]

NextSched == \E a \in 0..MaxAtraso : fechamento_auto(a)

SpecSched == InitSched /\ [][NextSched]_vars

\* payments handed to salvar_pix, with a redelivery of "abc123" that carries
\* another amount and status
Reentregas == Pagamentos \cup {<<"abc123", 500, "PENDING">>}

\* writers and readers of the store on one day
NextLeitura ==
    \/ \E w \in Workers, p \in Reentregas, e \in Empresas :
          salvar_pix_agora(w, p[1], p[2], p[3], e)
    \/ \E w \in Workers : salvar_pix_insert(w)
    \/ \E w \in Workers, d \in Datas, e \in Empresas : fechar_dia_resumo(w, d, e)
    \/ \E w \in Workers : fechar_dia_replace(w)
    \/ \E w \in Workers, d \in Datas, e \in Empresas : resumo_do_dia_chamada(w, d, e)
    \/ \E w \in Workers, d \in Datas, e \in Empresas : buscar_fechamento_chamada(w, d, e)
    \/ \E w \in Workers, d \in Datas : relatorio_pdf(w, d)

SpecLeitura == Init /\ [][NextLeitura]_vars

\* the fechamento_auto thread next to callers of salvar_pix, across midnight;
\* the loop reads the clock at the instant its sleep returns, so no time
\* passes while it stands at that read
InitFecho ==
    /\ pix = <<>>
    /\ fechamento_diario = {}
    /\ relogio = SegundosPorDia - 1
    /\ th = [w \in Workers |-> Livre]
    /\ sched = [SchedParado EXCEPT !.pc = "verifica"]
    /\ eventos = <<>>
    /\ chamadas = 0
    /\ g_fech = [k \in Chaves |-> GFechVazio]
    /\ disparos = [d \in Datas |-> 0]

NextFecho ==
    \/ \E a \in 0..MaxAtraso : fechamento_auto(a)
    \/ \E w \in Workers, p \in Pagamentos, e \in Empresas :
          salvar_pix_agora(w, p[1], p[2], p[3], e)
    \/ \E w \in Workers : salvar_pix_insert(w)
    \/ (sched.pc # "verifica" /\ Tique)

SpecFecho == InitFecho /\ [][NextFecho]_vars

\* the fechamento_auto thread over the days that follow
NextSchedDias ==
    \/ \E a \in 0..MaxAtraso : fechamento_auto(a)
    \/ HoraPassa

SpecSchedDias == InitSched /\ [][NextSchedDias]_vars

\* ------------------------------------------------------------- properties
\* positions of the pix rows with a payment_id
LinhasDoId(payment_id) == {i \in 1..Len(pix) : pix[i].payment_id = payment_id}

\* positions lo+1..hi of the pix rows of a (data, empresa_id) key
LinhasDaChave(k, lo, hi) ==
    {i \in (lo + 1)..hi : pix[i].data = k[1] /\ pix[i].empresa_id = k[2]}

RECURSIVE SomaValores(_)
SomaValores(S) ==
    IF S = {} THEN 0
    ELSE LET i == CHOOSE x \in S : TRUE IN pix[i].valor + SomaValores(S \ {i})

Retornou(w, op) == th[w].pc = "fim" /\ th[w].op = op

\* C1: when two calls of salvar_pix with the same payment_id and the same
\* empresa_id have both returned, both returned without error, exactly one
\* pix row holds that payment_id, and the summary of that empresa on the
\* row's date counts it (it is a row of that empresa).
C1_DedupIdempotence ==
    \A w1, w2 \in Workers :
        ( /\ w1 # w2
          /\ Retornou(w1, "salvar_pix") /\ Retornou(w2, "salvar_pix")
          /\ th[w1].payment_id = th[w2].payment_id
          /\ th[w1].empresa_id = th[w2].empresa_id )
        => /\ th[w1].ret = "None" /\ th[w2].ret = "None"
           /\ Cardinality(LinhasDoId(th[w1].payment_id)) = 1
           /\ \A i \in LinhasDoId(th[w1].payment_id) :
                 /\ pix[i].empresa_id = th[w1].empresa_id
                 /\ resumo_do_dia(pix[i].data, th[w1].empresa_id)[2] >= 1

\* C2: a delivery with a valid signature, a payment id not yet stored and a
\* numeric amount ends with ok, having inserted exactly one pix row with that
\* id and amount.
C2_WebhookEndToEnd ==
    \A w \in Workers :
        ( /\ Retornou(w, "webhook_pix")
          /\ validar_assinatura_pix(th[w].corpo, th[w].assinatura) = "True"
          /\ Corpos[th[w].corpo].paymentId.t = "str"
          /\ Corpos[th[w].corpo].amount.t = "num"
          /\ th[w].novo )
        => /\ th[w].ret = "200"
           /\ th[w].inseriu
           /\ \E i \in LinhasDoId(Corpos[th[w].corpo].paymentId.s) :
                 pix[i].valor = Corpos[th[w].corpo].amount.n

\* C3: a delivery whose signature header is missing or is not the keyed
\* digest of its body is answered 401 and has neither inserted a row nor
\* emitted an event (the handler writes no closing row on any path).
C3_UnauthenticatedNoEffect ==
    \A w \in Workers :
        ( /\ Retornou(w, "webhook_pix")
          /\ th[w].assinatura # HmacHexdigest(PIX_WEBHOOK_SECRET, th[w].corpo) )
        => /\ th[w].ret = "401"
           /\ ~th[w].inseriu
           /\ ~th[w].emitiu

\* C4: in every state, for every date and empresa, resumo_do_dia returns the
\* sum of valor over the pix rows of that date and empresa, and their number.
C4_AggregatorConsistency ==
    \A d \in Datas, e \in Empresas :
        LET L == LinhasDaChave(<<d, e>>, 0, Len(pix))
        IN resumo_do_dia(d, e) = <<SomaValores(L), Cardinality(L)>>

C4_Witness ==
    \E d \in Datas, e \in Empresas :
        /\ resumo_do_dia(d, e)[2] >= 1
        /\ Len(pix) > resumo_do_dia(d, e)[2]

\* C5: when salvar_pix has returned for the same payment_id under two
\* different empresas, each empresa has a pix row with that payment_id, and
\* its summary counts it.
C5_DedupKeyPerTenant ==
    \A w1, w2 \in Workers :
        ( /\ Retornou(w1, "salvar_pix") /\ Retornou(w2, "salvar_pix")
          /\ th[w1].payment_id = th[w2].payment_id
          /\ th[w1].empresa_id # th[w2].empresa_id )
        => \A w \in {w1, w2} :
              \E i \in LinhasDoId(th[w].payment_id) :
                 /\ pix[i].empresa_id = th[w].empresa_id
                 /\ resumo_do_dia(pix[i].data, th[w].empresa_id)[2] >= 1

Sucessivas(k) == g_fech[k].ant.existe /\ g_fech[k].seq

\* C7 as stated: two successive fechar_dia calls of one key, with no pix row
\* of that key committed after the first returned and before the second
\* began, write rows with the same total and quantidade.
C7_ClosingIdempotence_Original ==
    \A k \in Chaves :
        ( /\ Sucessivas(k)
          /\ LinhasDaChave(k, g_fech[k].ant.fim, g_fech[k].lido) = {} )
        => /\ buscar_fechamento(k[1], k[2]).total = g_fech[k].ant.total
           /\ buscar_fechamento(k[1], k[2]).quantidade = g_fech[k].ant.quantidade

\* C7 as amended: two successive fechar_dia calls of one key, with no pix row
\* of that key committed between the summary read of the first and the
\* summary read of the second, write rows with the same total and quantidade.
C7_ClosingIdempotence ==
    \A k \in Chaves :
        ( /\ Sucessivas(k)
          /\ LinhasDaChave(k, g_fech[k].ant.lido, g_fech[k].lido) = {} )
        => /\ buscar_fechamento(k[1], k[2]).total = g_fech[k].ant.total
           /\ buscar_fechamento(k[1], k[2]).quantidade = g_fech[k].ant.quantidade

C7_Witness ==
    \E k \in Chaves :
        /\ Sucessivas(k)
        /\ LinhasDaChave(k, g_fech[k].ant.lido, g_fech[k].lido) = {}
        /\ buscar_fechamento(k[1], k[2]).quantidade >= 1

C9_AtMostOneFiringPerDay == \A d \in Datas : disparos[d] <= 1

C9_Witness == \E d \in Datas : disparos[d] = 1 /\ sched.pc # "verifica"

\* C10: once the loop has fired for a date and the firing is over, every
\* empresa has a closing row for that date.
C10_SchedulerClosesEveryTenant ==
    \A d \in Datas :
        (disparos[d] > 0 /\ sched.pc # "fa_replace")
        => \A e \in Empresas : buscar_fechamento(d, e).existe

\* a step in which thread w finishes the write of a call of kind pc
Escreve(w, pc) == th[w].pc = pc /\ th'[w].pc = "fim"

\* C11: a step of salvar_pix or fechar_dia made for one empresa changes
\* neither resumo_do_dia nor buscar_fechamento of any other empresa, for any
\* date (and so no sequence of such steps does).
C11_TenantIsolation ==
    [][\A w \in Workers, b \in Empresas :
          ( /\ Escreve(w, "sp_insert") \/ Escreve(w, "fd_replace")
            /\ th[w].empresa_id # b )
          => \A d \in Datas :
                /\ resumo_do_dia(d, b)' = resumo_do_dia(d, b)
                /\ buscar_fechamento(d, b)' = buscar_fechamento(d, b)]_vars

\* one empresa has recorded a payment and closed the day with it, next to
\* another empresa's closing of the same day that holds nothing
C11_Witness ==
    \E d \in Datas, a, b \in Empresas :
        /\ a # b
        /\ buscar_fechamento(d, a).existe /\ buscar_fechamento(d, a).quantidade >= 1
        /\ buscar_fechamento(d, b).existe /\ buscar_fechamento(d, b).quantidade = 0
        /\ resumo_do_dia(d, b) = <<0, 0>>

\* a body whose paymentId is absent or empty, or whose amount is not a number
\* or is negative
PayloadInvalido(c) ==
    \/ Corpos[c].paymentId.t = "ausente"
    \/ Corpos[c].paymentId.t = "str" /\ Corpos[c].paymentId.s = ""
    \/ Float(DictGet(Corpos[c].amount, JNum(0))).erro
    \/ Float(DictGet(Corpos[c].amount, JNum(0))).n < 0

\* answers that reject a request for its content
RespostasDeValidacao == {"400", "422"}

\* C12: a delivery with a valid signature and an invalid body is answered
\* with a validation rejection and has inserted no pix row.
C12_InvalidPayloadRejected ==
    \A w \in Workers :
        ( /\ Retornou(w, "webhook_pix")
          /\ validar_assinatura_pix(th[w].corpo, th[w].assinatura) = "True"
          /\ PayloadInvalido(th[w].corpo) )
        => /\ th[w].ret \in RespostasDeValidacao
           /\ ~th[w].inseriu

\* C13: a delivery with a valid signature and a valid body, for which
\* socketio.emit fails, is answered ok and its payment id is stored.
C13_BroadcastFailureSwallowed ==
    \A w \in Workers :
        ( /\ Retornou(w, "webhook_pix")
          /\ validar_assinatura_pix(th[w].corpo, th[w].assinatura) = "True"
          /\ ~PayloadInvalido(th[w].corpo)
          /\ th[w].falha )
        => /\ th[w].ret = "200"
           /\ LinhasDoId(Corpos[th[w].corpo].paymentId.s) # {}

\* C14: no step removes a pix row or changes any field of one; a call of
\* salvar_pix with a stored payment_id and another valor or status leaves the
\* row as first written.
C14_PaymentsImmutable ==
    [][/\ Len(pix') >= Len(pix)
       /\ \A i \in 1..Len(pix) : pix'[i] = pix[i]]_vars

\* a call of salvar_pix has returned for a payment_id stored with another valor
C14_Witness ==
    \E w \in Workers :
        /\ Retornou(w, "salvar_pix")
        /\ ~th[w].inseriu
        /\ \E i \in LinhasDoId(th[w].payment_id) :
              /\ pix[i].valor # th[w].valor
              /\ pix[i].status # th[w].status
              /\ pix[i].empresa_id = th[w].empresa_id

\* C15: in every state fechamento_diario holds at most one row for each
\* (data, empresa_id), and the write of fechar_dia for one key leaves the rows
\* of every other key as they were.
C15_OneClosingPerKey ==
    /\ [](\A k \in Chaves :
            Cardinality(LinhasFechamento(fechamento_diario, k[1], k[2])) <= 1)
    /\ [][\A w \in Workers :
            Escreve(w, "fd_replace")
            => \A k \in Chaves :
                  k # <<th[w].data, th[w].empresa_id>>
                  => LinhasFechamento(fechamento_diario', k[1], k[2])
                     = LinhasFechamento(fechamento_diario, k[1], k[2])]_vars

\* a key closed twice, next to another key's row: two rows in all
C15_Witness ==
    \E k, k2 \in Chaves :
        /\ k # k2
        /\ g_fech[k].n >= 2
        /\ buscar_fechamento(k2[1], k2[2]).existe
        /\ Cardinality(fechamento_diario) = 2

\* the calls that only read
Leituras == {"buscar_fechamento", "resumo_do_dia", "relatorio_pdf"}

\* C16: a step that is a call of buscar_fechamento, of resumo_do_dia or of
\* relatorio_pdf leaves the rows of fechamento_diario and of pix as they
\* were; a key with no closing row has none after being read.
C16_ReadsWriteNothing ==
    [][\A w \in Workers :
          ( /\ chamadas' > chamadas
            /\ th'[w].pc = "fim" /\ th'[w].op \in Leituras
            /\ \A u \in Workers \ {w} : th'[u] = th[u] )
          => /\ fechamento_diario' = fechamento_diario
             /\ pix' = pix]_vars

\* buscar_fechamento has returned None for a key that has payments, and the
\* key still has no closing row
C16_Witness ==
    \E w \in Workers :
        /\ Retornou(w, "buscar_fechamento")
        /\ th[w].ret = "None"
        /\ ~buscar_fechamento(th[w].data, th[w].empresa_id).existe
        /\ resumo_do_dia(th[w].data, th[w].empresa_id)[2] >= 1

\* C17: a delivery with a valid signature, a payment id not yet stored and a
\* numeric amount, whose emit does not fail, has emitted an event whose
\* summary was read for the date stamped on its pix row and counts that row.
C17_EventIncludesOwnPayment ==
    \A w \in Workers :
        ( /\ Retornou(w, "webhook_pix")
          /\ validar_assinatura_pix(th[w].corpo, th[w].assinatura) = "True"
          /\ Corpos[th[w].corpo].paymentId.t = "str"
          /\ Corpos[th[w].corpo].amount.t = "num"
          /\ th[w].novo
          /\ ~th[w].falha )
        => /\ th[w].emitiu
           /\ th[w].qtd >= 1
           /\ \E i \in LinhasDoId(Corpos[th[w].corpo].paymentId.s) :
                 pix[i].data = th[w].data

\* C18: once the clock shows a later date than d and the loop has fired for
\* d, every empresa's closing row of d exists and holds resumo_do_dia of d.
C18_ScheduledClosingCoversDay ==
    \A d \in Datas, e \in Empresas :
        (disparos[d] >= 1 /\ FormatData(relogio) > d)
        => /\ buscar_fechamento(d, e).existe
           /\ <<buscar_fechamento(d, e).total, buscar_fechamento(d, e).quantidade>>
              = resumo_do_dia(d, e)

\* C19: once a date is over, the loop has triggered fechar_dia for it.
C19_NoDaySkipped ==
    \A d \in Datas :
        relogio >= SegundosPorDia * (d + 1) => disparos[d] >= 1

Maior(a, b) == IF a >= b THEN a ELSE b

\* C20: a closing row that replaces another holds no smaller total and
\* quantidade; and when two fechar_dia calls of one key have both written,
\* the row holds the summary of the pix rows visible to the later of their
\* two summary reads.
C20_ConcurrentClosingsNeverRegress ==
    \A k \in Chaves :
        /\ g_fech[k].ant.existe
           => /\ buscar_fechamento(k[1], k[2]).quantidade >= g_fech[k].ant.quantidade
              /\ buscar_fechamento(k[1], k[2]).total >= g_fech[k].ant.total
        /\ g_fech[k].n = 2
           => LET L == LinhasDaChave(k, 0, Maior(g_fech[k].lido, g_fech[k].ant.lido))
              IN /\ buscar_fechamento(k[1], k[2]).total = SomaValores(L)
                 /\ buscar_fechamento(k[1], k[2]).quantidade = Cardinality(L)

====
